---- MODULE Spec2Model ----
(***************************************************************************)
(* A model of rl4co's ATSPEnv (src/rl4co/envs/atsp.py): the metric-closure *)
(* generator generate_data, the episode state built by _reset and advanced *)
(* by _step, and the tour validator and scorer get_reward.                 *)
(*                                                                         *)
(* Tensors are functions: a batch is indexed by 0..B-1, nodes by 0..N-1, a *)
(* distance matrix is d[i][j].  Distances are integers in units of 1/Grain *)
(* (torch.rand yields r/Grain for r in 0..Grain-1).                        *)
(***************************************************************************)
EXTENDS Integers, Sequences, FiniteSets

(* ------------------------------ bounds --------------------------------- *)
\* largest num_loc the environment is constructed with
MaxLoc == 4
\* largest batch size of a reset, a generate_data or a get_reward call
MaxBatch == 2
\* largest number of mask cells (batch size * num_loc) of an episode
MaxCells == 6
\* number of _step calls followed beyond the num_loc-th of an episode
MaxOver == 1
\* number of values torch.rand can return
Grain == 2
\* largest number of distinct draws of one generate_data call that are followed
MaxDraws == 4096
\* largest number of off-diagonal entries (batch size * N * (N-1)) of a scored batch
MaxEntries == 6
\* largest seed the environment is constructed with
MaxSeed == 0

(* ------------------------- program constants --------------------------- *)
\* __init__: min_dist: float = 0
DefaultMinDist == 0
\* __init__: max_dist: float = 1
DefaultMaxDist == 1

VARIABLES
    pc,            \* position of the caller: which call returned last
    num_loc,       \* self.num_loc
    min_dist,      \* self.min_dist
    max_dist,      \* self.max_dist
    dms,           \* generate_data: the batch of matrices being closed
    old_dms,       \* generate_data: the clone taken at the top of the loop
    draw,          \* generate_data: dms as drawn, before the first pass
    passes,        \* generate_data: closure passes run so far
    observation,   \* td["observation"]
    first_node,    \* td["first_node"]
    current_node,  \* td["current_node"]
    i,             \* td["i"]
    action_mask,   \* td["action_mask"]
    reward,        \* td["reward"] of the last _step
    done,          \* td["done"] of the last _step
    actions,       \* the action sequences recorded by the caller, one per instance
    legal,         \* per instance: every _step of the episode chose an unmasked node
    err,           \* the error the last call raised, "none" when it returned
    cost           \* the value get_reward returned last

vars == <<pc, num_loc, min_dist, max_dist, dms, old_dms, draw, passes,
          observation, first_node, current_node, i, action_mask, reward, done,
          actions, legal, err, cost>>

genVars == <<dms, old_dms, draw, passes>>
tdVars == <<observation, first_node, current_node, i, action_mask, reward, done>>

(* ------------------------------ helpers -------------------------------- *)
Nodes(N) == 0 .. N - 1
Batch(B) == 0 .. B - 1
\* the value of a variable that holds no tensor
None == <<>>
\* float("-inf")
NegInf == "-inf"

Min(S) == CHOOSE x \in S : \A y \in S : x <= y

RECURSIVE SumSeq(_)
SumSeq(s) == IF s = <<>> THEN 0 ELSE Head(s) + SumSeq(Tail(s))

BatchSizeOf(t) == Cardinality(DOMAIN t)

(* --------------------------- generate_data ----------------------------- *)
\* the outcomes of torch.rand((B, N, N)): every entry is one of r/Grain.  The
\* diagonal draws are overwritten before they are read, so 0 stands for them.
OffDiagonal(B, N) ==
    {e \in Batch(B) \X Nodes(N) \X Nodes(N) : e[2] # e[3]}

RandTensors(B, N) ==
    {[b \in Batch(B) |->
        [p \in Nodes(N) |->
            [q \in Nodes(N) |-> IF p = q THEN 0 ELSE r[<<b, p, q>>]]]] :
        r \in [OffDiagonal(B, N) -> 0 .. Grain - 1]}

\* ScaleDraw without line 163: the diagonal is scaled like any other entry
ScaleDrawKeepDiagonal(u, lo, hi, N) ==
    [b \in DOMAIN u |->
        [p \in Nodes(N) |->
            [q \in Nodes(N) |-> u[b][p][q] * (hi - lo) + lo * Grain]]]

\* rand * (max_dist - min_dist) + min_dist, then the diagonal set to 0
ScaleDraw(u, lo, hi, N) ==
    [b \in DOMAIN u |->
        [p \in Nodes(N) |->
            [q \in Nodes(N) |->
                IF p = q THEN 0 ELSE u[b][p][q] * (hi - lo) + lo * Grain]]]

\* ClosurePass without .transpose(-2, -1): d[p][k] is added to d[q][k]
ClosurePassNoTranspose(d, N) ==
    [p \in Nodes(N) |->
        [q \in Nodes(N) |-> Min({d[p][k] + d[q][k] : k \in Nodes(N)})]]

\* one pass on one matrix: (d[:, None, :] + d[None, :, :].transpose(-2, -1)).min(-1)
ClosurePass(d, N) ==
    [p \in Nodes(N) |->
        [q \in Nodes(N) |-> Min({d[p][k] + d[k][q] : k \in Nodes(N)})]]

\* the pass applied to the whole batch
BatchPass(ds, N) == [b \in DOMAIN ds |-> ClosurePass(ds[b], N)]

\* Converged as a loop of one fixed pass: no comparison is made
ConvergedAtOnce(new, old) == TRUE

\* Converged on the tensors' identity (dms is old_dms): never true of a clone
ConvergedNever(new, old) == FALSE

\* the loop's exit test: (dms == old_dms).all()
Converged(new, old) ==
    \A b \in DOMAIN new : \A p \in DOMAIN new[b] : \A q \in DOMAIN new[b][p] :
        new[b][p][q] = old[b][p][q]

\* while True: old = dms.clone(); dms = pass(dms); if (dms == old).all(): break
RECURSIVE ClosureLoop(_, _)
ClosureLoop(ds, N) ==
    LET new == BatchPass(ds, N)
    IN  IF Converged(new, ds) THEN new ELSE ClosureLoop(new, N)

\* generate_data(batch_size) as _reset and dataset call it: draw, then close
generate_data(u, lo, hi, N) == ClosureLoop(ScaleDraw(u, lo, hi, N), N)

\* Grain ^ e, not computed beyond cap
RECURSIVE PowUpTo(_, _)
PowUpTo(e, cap) ==
    IF e = 0 THEN 1
    ELSE LET r == PowUpTo(e - 1, cap) IN IF r > cap THEN r ELSE r * Grain

(* ------------------- the generator, pass by pass ----------------------- *)
\* the values __init__ is given for min_dist and max_dist
DistParams == DefaultMinDist .. DefaultMaxDist

NoEpisode ==
    /\ observation = None /\ first_node = None /\ current_node = None
    /\ i = None /\ action_mask = None /\ reward = None /\ done = None
    /\ actions = None /\ legal = None /\ err = "none" /\ cost = None

\* ATSPEnv(num_loc, min_dist, max_dist): no matrix drawn yet
InitGen ==
    /\ pc = "constructed"
    /\ num_loc \in 1 .. MaxLoc
    /\ min_dist \in DistParams
    /\ max_dist \in DistParams
    /\ dms = None /\ old_dms = None /\ draw = None /\ passes = 0
    /\ NoEpisode

\* generate_data, lines 161-163: the draw, scaled, with a zero diagonal
GenDraw ==
    /\ pc = "constructed"
    /\ \E B \in 1 .. MaxBatch :
          /\ PowUpTo(B * num_loc * (num_loc - 1), MaxDraws) <= MaxDraws
          /\ \E u \in RandTensors(B, num_loc) :
                dms' = ScaleDraw(u, min_dist, max_dist, num_loc)
    /\ draw' = dms'
    /\ old_dms' = None
    /\ passes' = 0
    /\ pc' = "drawn"
    /\ UNCHANGED <<num_loc, min_dist, max_dist, tdVars, actions, legal, err, cost>>

\* generate_data, lines 165-168: one trip round the while loop
GenPass ==
    /\ pc = "drawn"
    /\ old_dms' = dms
    /\ dms' = BatchPass(dms, num_loc)
    /\ passes' = passes + 1
    /\ pc' = IF Converged(dms', old_dms') THEN "generated" ELSE "drawn"
    /\ UNCHANGED <<num_loc, min_dist, max_dist, draw, tdVars, actions, legal, err, cost>>

NextGen == GenDraw \/ GenPass

SpecGen == InitGen /\ [][NextGen]_vars

(* ------------------------------ _reset --------------------------------- *)
\* what torch.rand returns from self.rng seeded with s
SeededRand(s, B, N) ==
    [b \in Batch(B) |->
        [p \in Nodes(N) |->
            [q \in Nodes(N) |->
                IF p = q THEN 0 ELSE (p * p + (s + 1) * q + b + s) % Grain]]]

\* the matrix of the specification's Scenario A: asymmetric, not metric-closed
ScenarioA == [p \in Nodes(3) |-> [q \in Nodes(3) |->
                 <<<<0, 2, 9>>, <<1, 0, 3>>, <<4, 5, 0>>>>[p + 1][q + 1]]]

\* a batch of matrices a caller loads from a dataset
SuppliedBatch(B, N) ==
    [b \in Batch(B) |->
        IF N = 3 /\ b = 0 THEN ScenarioA
        ELSE [p \in Nodes(N) |->
                [q \in Nodes(N) |->
                    IF p = q THEN 0 ELSE 1 + ((2 * p + 3 * q + b) % 5)]]]

\* the init_dm arguments of the episodes followed: None, or a loaded batch
EpisodeInputs(B, N) == {None, SuppliedBatch(B, N)}

\* InitialMask with the start node 0 marked visited
InitialMaskStartVisited(B, N) == [b \in Batch(B) |-> [n \in Nodes(N) |-> n # 0]]

\* torch.ones((*batch_size, 1, num_loc), dtype=torch.bool): 1 means not visited
InitialMask(B, N) == [b \in Batch(B) |-> [n \in Nodes(N) |-> TRUE]]

\* InitDmOf with the closure run on a loaded matrix as well
InitDmOfClosed(B, init_dm, s) ==
    IF init_dm = None
    THEN generate_data(SeededRand(s, B, num_loc), min_dist, max_dist, num_loc)
    ELSE ClosureLoop(init_dm, num_loc)

\* lines 73-82: the matrix loaded, or a generated one when none is
InitDmOf(B, init_dm, s) ==
    IF init_dm = None
    THEN generate_data(SeededRand(s, B, num_loc), min_dist, max_dist, num_loc)
    ELSE init_dm

\* _reset(td, init_obs, batch_size), lines 73-100
Reset(B, init_dm, s) ==
    /\ observation' = InitDmOf(B, init_dm, s)
    /\ current_node' = [b \in Batch(B) |-> 0]
    /\ first_node' = current_node'
    /\ action_mask' = InitialMask(B, num_loc)
    /\ i' = [b \in Batch(B) |-> 0]
    /\ reward' = None
    /\ done' = None
    /\ actions' = [b \in Batch(B) |-> <<>>]
    /\ legal' = [b \in Batch(B) |-> TRUE]
    /\ err' = "none"
    /\ cost' = None
    /\ pc' = "reset"
    /\ UNCHANGED <<num_loc, min_dist, max_dist, genVars>>

(* ------------------------------- _step --------------------------------- *)
\* rl4co.envs.utils.batch_to_scalar: the first element of a batched value
batch_to_scalar(param) == param[0]

\* Scatter with the index dropped: the whole row is written
ScatterWholeRow(mask, action) ==
    [b \in DOMAIN mask |-> [n \in DOMAIN mask[b] |-> FALSE]]

\* Scatter that flips the entry at the action instead of writing 0
ScatterToggle(mask, action) ==
    [b \in DOMAIN mask |->
        [n \in DOMAIN mask[b] |-> IF n = action[b] THEN ~mask[b][n] ELSE mask[b][n]]]

\* td["action_mask"].scatter(-1, action[..., None].expand_as(mask), 0)
Scatter(mask, action) ==
    [b \in DOMAIN mask |->
        [n \in DOMAIN mask[b] |-> IF n = action[b] THEN FALSE ELSE mask[b][n]]]

\* DoneOf with the comparison off by one: <= 1
DoneOfEarly(available, N) ==
    IF N = 1
    THEN LET total == Cardinality({b \in DOMAIN available : available[b][0]})
         IN  [b \in DOMAIN available |-> total <= 1]
    ELSE [b \in DOMAIN available |->
            Cardinality({n \in Nodes(N) : available[b][n]}) <= 1]

\* DoneOf with the count taken over every dimension: no dim=-1
DoneOfWholeBatch(available, N) ==
    LET total == Cardinality({e \in (DOMAIN available) \X Nodes(N) :
                                 available[e[1]][e[2]]})
    IN  [b \in DOMAIN available |-> total <= 0]

\* torch.count_nonzero(available.squeeze(), dim=-1) <= 0.  squeeze() drops
\* every dimension of size 1: with num_loc = 1 the last dimension left is the
\* batch, and the count is taken over it.
DoneOf(available, N) ==
    IF N = 1
    THEN LET total == Cardinality({b \in DOMAIN available : available[b][0]})
         IN  [b \in DOMAIN available |-> total <= 0]
    ELSE [b \in DOMAIN available |->
            Cardinality({n \in Nodes(N) : available[b][n]}) <= 0]

\* RewardOf with a zero reward once the instance is done
RewardOfZeroAtEnd(dn) == [b \in DOMAIN dn |-> IF dn[b] THEN "0.0" ELSE NegInf]

\* line 50: torch.ones_like(done) * float("-inf")
RewardOf(dn) == [b \in DOMAIN dn |-> NegInf]

\* FirstNodeOf with the test on td["i"] dropped: every step overwrites it
FirstNodeOfAlways(index, action, first) == action

\* line 39: current_node if batch_to_scalar(td["i"]) == 0 else td["first_node"]
FirstNodeOf(index, action, first) ==
    IF batch_to_scalar(index) = 0 THEN action ELSE first

\* Step with a counter that counts the unmasked choices only
StepCountsLegalOnly(action) ==
    LET available == Scatter(action_mask, action)
    IN  /\ current_node' = action
        /\ first_node' = FirstNodeOf(i, action, first_node)
        /\ action_mask' = available
        /\ done' = DoneOf(available, num_loc)
        /\ reward' = RewardOf(done')
        /\ i' = [b \in DOMAIN i |->
                    IF action_mask[b][action[b]] THEN i[b] + 1 ELSE i[b]]
        /\ actions' = [b \in DOMAIN actions |-> Append(actions[b], action[b])]
        /\ legal' = [b \in DOMAIN legal |-> legal[b] /\ action_mask[b][action[b]]]
        /\ err' = "none"
        /\ cost' = None
        /\ pc' = "stepped"
        /\ UNCHANGED <<num_loc, min_dist, max_dist, genVars, observation>>

\* _step(td), lines 38-66, on td["action"] = action
Step(action) ==
    LET available == Scatter(action_mask, action)
    IN  /\ current_node' = action
        /\ first_node' = FirstNodeOf(i, action, first_node)
        /\ action_mask' = available
        /\ done' = DoneOf(available, num_loc)
        /\ reward' = RewardOf(done')
        /\ i' = [b \in DOMAIN i |-> i[b] + 1]
        /\ actions' = [b \in DOMAIN actions |-> Append(actions[b], action[b])]
        /\ legal' = [b \in DOMAIN legal |-> legal[b] /\ action_mask[b][action[b]]]
        /\ err' = "none"
        /\ cost' = None
        /\ pc' = "stepped"
        /\ UNCHANGED <<num_loc, min_dist, max_dist, genVars, observation>>

(* ----------------------------- get_reward ------------------------------ *)
\* torch.arange(actions.size(1))
Arange(L) == [k \in 1 .. L |-> k - 1]

RECURSIVE Insert(_, _)
Insert(x, s) ==
    IF s = <<>> THEN <<x>>
    ELSE IF x <= Head(s) THEN <<x>> \o s
    ELSE <<Head(s)>> \o Insert(x, Tail(s))

RECURSIVE InsertDescending(_, _)
InsertDescending(x, s) ==
    IF s = <<>> THEN <<x>>
    ELSE IF x >= Head(s) THEN <<x>> \o s
    ELSE <<Head(s)>> \o InsertDescending(x, Tail(s))

\* SortRow with descending=True
RECURSIVE SortRowDescending(_)
SortRowDescending(s) ==
    IF s = <<>> THEN <<>> ELSE InsertDescending(Head(s), SortRowDescending(Tail(s)))

\* actions.data.sort(1)[0], one row
RECURSIVE SortRow(_)
SortRow(s) == IF s = <<>> THEN <<>> ELSE Insert(Head(s), SortRow(Tail(s)))

\* TourCheck with .any() over the rows in place of .all()
TourCheckAnyRow(acts) ==
    \E b \in DOMAIN acts : Arange(Len(acts[b])) = SortRow(acts[b])

\* the assertion of lines 140-145: every row sorts to arange(actions.size(1))
TourCheck(acts) ==
    \A b \in DOMAIN acts : Arange(Len(acts[b])) = SortRow(acts[b])

\* Roll by -1: every element moves one place to the left
RollLeft(s) == IF s = <<>> THEN s ELSE Tail(s) \o <<Head(s)>>

\* torch.roll(row, 1): every element moves one place to the right
Roll(s) == IF s = <<>> THEN s ELSE <<s[Len(s)]>> \o SubSeq(s, 1, Len(s) - 1)

\* distance_matrix[batch_idx, nodes_src, nodes_tgt].sum(-1), lines 148-151
TourCost(distance_matrix, acts) ==
    [b \in DOMAIN acts |->
        LET nodes_src == acts[b]
            nodes_tgt == Roll(acts[b])
        IN  SumSeq([k \in 1 .. Len(nodes_src) |->
                        distance_matrix[b][nodes_src[k]][nodes_tgt[k]]])]

\* get_reward(td, actions), lines 138-151
GetReward(acts) ==
    /\ IF TourCheck(acts)
       THEN /\ err' = "none"
            /\ cost' = TourCost(observation, acts)
       ELSE /\ err' = "InvalidTour"
            /\ cost' = None
    /\ actions' = acts
    /\ pc' = "scored"
    /\ UNCHANGED <<num_loc, min_dist, max_dist, genVars, tdVars, legal>>

(* ----------------------------- an episode ------------------------------ *)
\* ATSPEnv(num_loc) with the default distance bounds; no reset yet
Init ==
    /\ pc = "constructed"
    /\ num_loc \in 1 .. MaxLoc
    /\ min_dist = DefaultMinDist
    /\ max_dist = DefaultMaxDist
    /\ dms = None /\ old_dms = None /\ draw = None /\ passes = 0
    /\ NoEpisode

\* the caller resets, with a loaded batch or with none: on a new environment,
\* and again once it has scored an episode
DoReset ==
    /\ pc = "constructed" \/ (pc = "scored" /\ err = "none")
    /\ \E B \in 1 .. MaxBatch :
          /\ B * num_loc <= MaxCells
          /\ \E init_dm \in EpisodeInputs(B, num_loc), s \in 0 .. MaxSeed :
                Reset(B, init_dm, s)

\* the caller steps the batch with one node per instance, masked or not
DoStep ==
    /\ pc \in {"reset", "stepped", "scored"}
    /\ batch_to_scalar(i) < num_loc + MaxOver
    /\ \E action \in [DOMAIN i -> Nodes(num_loc)] : Step(action)

\* the caller scores the actions it recorded
DoScore ==
    /\ pc = "stepped"
    /\ GetReward(actions)

Next == DoReset \/ DoStep \/ DoScore

Spec == Init /\ [][Next]_vars

(* ------------------------ the scorer on any input ---------------------- *)
\* the matrices scored: the loaded batch, and every drawn batch when small
ScoreInputs(B, N) ==
    {SuppliedBatch(B, N)} \cup
    IF B * N * (N - 1) <= MaxEntries
    THEN {ScaleDraw(u, DefaultMinDist, DefaultMaxDist, N) : u \in RandTensors(B, N)}
    ELSE {}

\* every batch of L-long action sequences over the nodes
ActionSeqs(B, N, L) == [Batch(B) -> [1 .. L -> Nodes(N)]]

\* the caller resets on a loaded batch
LoadReset ==
    /\ pc = "constructed"
    /\ \E B \in 1 .. MaxBatch :
          /\ B * num_loc <= MaxCells
          /\ \E init_dm \in ScoreInputs(B, num_loc) : Reset(B, init_dm, 0)

\* the caller scores a batch of action sequences of any one length
ScoreAny ==
    /\ pc = "reset"
    /\ \E L \in 0 .. num_loc + 1 :
          \E acts \in ActionSeqs(BatchSizeOf(i), num_loc, L) : GetReward(acts)

NextScore == LoadReset \/ ScoreAny

SpecScore == Init /\ [][NextScore]_vars

(* ------------------------------ properties ----------------------------- *)
InEpisode == pc \in {"reset", "stepped", "scored"}

\* the nodes of instance b whose mask entry is false
Visited(b) == {n \in Nodes(num_loc) : ~action_mask[b][n]}

\* s holds every node of [0, N) exactly once
PermOf(s, N) == Len(s) = N /\ {s[k] : k \in 1 .. Len(s)} = Nodes(N)

HasDuplicate(s) == \E j, k \in 1 .. Len(s) : j # k /\ s[j] = s[k]

\* C1: after k step calls from reset, all of them legal for an instance, exactly
\* k entries of the instance's visitedMask are false and its stepIndex is k.
C1_LegalStepsCountVisited ==
    InEpisode =>
        \A b \in DOMAIN i :
            legal[b] =>
                /\ Cardinality(Visited(b)) = Len(actions[b])
                /\ i[b] = Len(actions[b])

C1_Witness ==
    /\ pc = "stepped"
    /\ num_loc >= 3
    /\ BatchSizeOf(i) = 2
    /\ \A b \in DOMAIN i : legal[b] /\ Len(actions[b]) = 2 /\ Cardinality(Visited(b)) = 2

\* C2: along an episode of legal steps on N nodes the done flag step returns is
\* false after each of the first N-1 steps and true after the N-th.
C2_DoneExactlyAtNumLoc ==
    pc = "stepped" =>
        \A b \in DOMAIN i :
            legal[b] => /\ i[b] <= num_loc
                        /\ done[b] = (i[b] = num_loc)

C2_Witness ==
    /\ pc = "stepped"
    /\ num_loc >= 3
    /\ \A b \in DOMAIN i : legal[b] /\ i[b] = num_loc /\ done[b]

\* C3: no step, legal or not, before or after termination, turns a mask entry
\* from false back to true, and a step changes at most the entry at its action.
C3_MaskMonotone ==
    [][pc' = "stepped" =>
          \A b \in DOMAIN action_mask : \A n \in Nodes(num_loc) :
              /\ ~action_mask[b][n] => ~action_mask'[b][n]
              /\ action_mask'[b][n] # action_mask[b][n] => n = current_node'[b]]_vars

C3_Witness ==
    /\ pc = "stepped"
    /\ \E b \in DOMAIN i : ~legal[b] /\ Visited(b) # {} /\ Visited(b) # Nodes(num_loc)
    /\ batch_to_scalar(i) > num_loc

\* C4: score fails with InvalidTour, and returns no cost for any instance, on
\* every batch of N-long sequences over [0, N) in which some sequence holds a
\* duplicate; it returns a cost only when every sequence is a permutation.
C4_DuplicateIsInvalidTour ==
    (pc = "scored" /\ \A b \in DOMAIN actions : Len(actions[b]) = num_loc) =>
        /\ (\E b \in DOMAIN actions : HasDuplicate(actions[b])) =>
               (err = "InvalidTour" /\ cost = None)
        /\ cost # None => \A b \in DOMAIN actions : PermOf(actions[b], num_loc)

C4_Witness ==
    /\ pc = "scored"
    /\ num_loc = 4
    /\ actions[0] = <<0, 1, 1, 3>>
    /\ err = "InvalidTour"
    /\ cost = None

\* the k-th action of a sequence, counted from 0
At(s, k) == s[k + 1]

\* the sum over k in [0, n) of d[s[k]][s[(k-1) mod N]]
RECURSIVE PredecessorSum(_, _, _)
PredecessorSum(d, s, n) ==
    IF n = 0 THEN 0
    ELSE d[At(s, n - 1)][At(s, (n - 2 + Len(s)) % Len(s))] + PredecessorSum(d, s, n - 1)

\* C5: on a permutation of [0, N), score returns the sum over i of
\* d[actions[i]][actions[(i-1) mod N]]; on Scenario A's matrix and [0,1,2] that
\* is d[0][2] + d[1][0] + d[2][1].
C5_CostReadsEdgeFromPredecessor ==
    (pc = "scored" /\ \A b \in DOMAIN actions : PermOf(actions[b], num_loc)) =>
        /\ err = "none"
        /\ \A b \in DOMAIN actions :
               cost[b] = PredecessorSum(observation[b], actions[b], num_loc)
        /\ (observation[0] = ScenarioA /\ actions[0] = <<0, 1, 2>>) =>
               cost[0] = ScenarioA[0][2] + ScenarioA[1][0] + ScenarioA[2][1]

C5_Witness ==
    /\ pc = "scored"
    /\ observation[0] = ScenarioA
    /\ actions[0] = <<0, 1, 2>>
    /\ err = "none"
    /\ cost[0] = 15

\* d[p][q] <= d[p][k] + d[k][q] for every ordered triple, and a zero diagonal
Metric(d, N) ==
    /\ \A p, q, k \in Nodes(N) : d[p][q] <= d[p][k] + d[k][q]
    /\ \A p \in Nodes(N) : d[p][p] = 0

\* C6: every matrix generate returns satisfies the triangle inequality on all
\* ordered triples and has a zero diagonal.
C6_GeneratedIsMetric ==
    pc = "generated" => \A b \in DOMAIN dms : Metric(dms[b], num_loc)

C6_Witness ==
    /\ pc = "generated"
    /\ passes = 3
    /\ \E b \in DOMAIN dms : ~Metric(draw[b], num_loc)

\* C7: a step whose action's mask entry is already false fails with
\* IllegalAction and leaves visitedMask, currentNode, firstNode, stepIndex as
\* they were.
C7_IllegalActionRejected ==
    [][(pc' = "stepped" /\ \E b \in DOMAIN action_mask :
                              ~action_mask[b][current_node'[b]]) =>
          /\ err' = "IllegalAction"
          /\ UNCHANGED <<action_mask, current_node, first_node, i>>]_vars

\* C8: an episode driven from reset by legal actions until done has recorded
\* N actions that are a permutation of [0, N), and score does not fail on them.
C8_LegalEpisodeScores ==
    (pc \in {"stepped", "scored"}
        /\ \A b \in DOMAIN i : legal[b] /\ done[b]) =>
        /\ \A b \in DOMAIN i : PermOf(actions[b], num_loc)
        /\ TourCheck(actions)
        /\ pc = "scored" => (err = "none" /\ cost # None)

C8_Witness ==
    /\ pc = "scored"
    /\ num_loc = 3
    /\ BatchSizeOf(i) = 2
    /\ \A b \in DOMAIN i : legal[b] /\ done[b]
    /\ actions[0] # actions[1]
    /\ err = "none"

\* C9: reset, on a generated or a supplied matrix, gives every instance
\* stepIndex 0, currentNode = firstNode = 0 and an all-true visitedMask, so
\* that action 0 is legal as the first action.
C9_ResetState ==
    pc = "reset" =>
        \A b \in DOMAIN i :
            /\ i[b] = 0
            /\ current_node[b] = 0
            /\ first_node[b] = 0
            /\ \A n \in Nodes(num_loc) : action_mask[b][n]

C9_Witness ==
    /\ pc = "reset"
    /\ num_loc = 3
    /\ BatchSizeOf(i) = 2
    /\ observation # SuppliedBatch(2, 3)
    /\ action_mask[1][0]

\* C10: from non-negative entries and a zero diagonal, every closure pass and
\* the closure's result leave no entry above its value before the pass or
\* before the closure, none negative, and the diagonal 0.
C10_ClosureNeverIncreases ==
    pc \in {"drawn", "generated"} =>
        \A b \in DOMAIN dms : \A p, q \in Nodes(num_loc) :
            /\ dms[b][p][q] <= draw[b][p][q]
            /\ passes > 0 => dms[b][p][q] <= old_dms[b][p][q]
            /\ dms[b][p][q] >= 0
            /\ dms[b][p][p] = 0

C10_Witness ==
    /\ pc = "drawn"
    /\ passes = 2
    /\ \E b \in DOMAIN dms : \E p, q \in Nodes(num_loc) :
          /\ dms[b][p][q] < old_dms[b][p][q]
          /\ old_dms[b][p][q] <= draw[b][p][q]
          /\ draw[b][p][q] > 0

\* a batch of one: instance b of a batched value, alone
Alone(t, b) == [z \in {0} |-> t[b]]

\* what _step returns for instance b when the batch holds that instance only
StepAlone(b, action) ==
    LET available == Scatter(Alone(action_mask, b), Alone(action, b))
    IN  [first_node |-> FirstNodeOf(Alone(i, b), Alone(action, b),
                                    Alone(first_node, b))[0],
         current_node |-> action[b],
         action_mask |-> available[0],
         i |-> i[b] + 1,
         done |-> DoneOf(available, num_loc)[0]]

\* C11: a batched step gives instance b the next state and done flag that a
\* step of instance b alone gives, whatever the other instances hold and choose.
C11_InstancesIndependent ==
    [][pc' = "stepped" =>
          \A b \in DOMAIN i :
              LET alone == StepAlone(b, current_node')
              IN  /\ first_node'[b] = alone.first_node
                  /\ current_node'[b] = alone.current_node
                  /\ action_mask'[b] = alone.action_mask
                  /\ i'[b] = alone.i
                  /\ done'[b] = alone.done]_vars

C11_Witness ==
    /\ pc = "stepped"
    /\ BatchSizeOf(i) = 2
    /\ num_loc >= 2
    /\ done[0] # done[1]
    /\ first_node[0] # first_node[1]
    /\ current_node[0] # current_node[1]

\* C12: every step, the one that makes done true included, returns the
\* undefined reward (negative infinity) for every instance; a defined cost
\* comes from score only.
C12_StepRewardUndefined ==
    /\ pc \in {"stepped", "scored"} => \A b \in DOMAIN reward : reward[b] = NegInf
    /\ pc = "stepped" => cost = None
    /\ cost # None => (pc = "scored" /\ \A b \in DOMAIN cost : cost[b] \in Nat)

C12_Witness ==
    /\ pc = "stepped"
    /\ num_loc >= 2
    /\ \A b \in DOMAIN i : legal[b] /\ done[b] /\ reward[b] = NegInf
    /\ cost = None

\* C13: an invalid configuration (min_dist > max_dist) is surfaced as a
\* ConfigError by the generator or reset call, and neither a distance matrix
\* nor an episode state is produced from it.
C13_ConfigErrorSurfaced ==
    min_dist > max_dist =>
        /\ dms = None
        /\ observation = None
        /\ pc # "constructed" => err = "ConfigError"

\* the least e with 2^e >= n
RECURSIVE CeilLog2(_)
CeilLog2(n) == IF n <= 1 THEN 0 ELSE 1 + CeilLog2((n + 1) \div 2)

\* C14: on N nodes the closure loop ends on a pass that changed no entry, and
\* it has then run at most ceil(log2(N)) + 1 passes.
C14_ClosurePassBound ==
    /\ pc = "drawn" => passes < CeilLog2(num_loc) + 1
    /\ pc = "generated" =>
          /\ passes >= 1
          /\ passes <= CeilLog2(num_loc) + 1
          /\ dms = old_dms

C14_Witness ==
    /\ pc = "generated"
    /\ num_loc = 4
    /\ passes = CeilLog2(num_loc) + 1
    /\ dms = old_dms
    /\ dms # draw

\* the reference: Floyd-Warshall with the intermediate nodes 0 .. k-1 allowed
RECURSIVE FloydWarshall(_, _, _)
FloydWarshall(d, k, N) ==
    IF k = 0 THEN d
    ELSE LET prev == FloydWarshall(d, k - 1, N)
         IN  [p \in Nodes(N) |->
                [q \in Nodes(N) |->
                    IF prev[p][k - 1] + prev[k - 1][q] < prev[p][q]
                    THEN prev[p][k - 1] + prev[k - 1][q]
                    ELSE prev[p][q]]]

\* C15: the matrix the closure loop returns is the all-pairs shortest-path
\* matrix of the matrix drawn, and each pass replaces every d[p][q] by the least
\* d[p][k] + d[k][q] of the matrix before the pass.
C15_ClosureIsShortestPaths ==
    /\ pc = "generated" =>
          \A b \in DOMAIN dms : dms[b] = FloydWarshall(draw[b], num_loc, num_loc)
    /\ (pc \in {"drawn", "generated"} /\ passes > 0) =>
          \A b \in DOMAIN dms : \A p, q \in Nodes(num_loc) :
              /\ \A k \in Nodes(num_loc) :
                     dms[b][p][q] <= old_dms[b][p][k] + old_dms[b][k][q]
              /\ \E k \in Nodes(num_loc) :
                     dms[b][p][q] = old_dms[b][p][k] + old_dms[b][k][q]

C15_Witness ==
    /\ pc = "generated"
    /\ passes = 3
    /\ \E b \in DOMAIN dms :
          /\ dms[b] # draw[b]
          /\ dms[b] = FloydWarshall(draw[b], num_loc, num_loc)
          /\ \E p, q \in Nodes(num_loc) : dms[b][p][q] # dms[b][q][p]

\* C16: score accepts a sequence only if it is a permutation of [0, N), N the
\* node count of the matrix: a sequence of another length L, a permutation of
\* [0, L) with L < N included, fails with InvalidTour and is not scored.
C16_OnlyFullPermutationsScored ==
    pc = "scored" =>
        /\ err = "none" => \A b \in DOMAIN actions : PermOf(actions[b], num_loc)
        /\ (\E b \in DOMAIN actions : Len(actions[b]) # num_loc) =>
               (err = "InvalidTour" /\ cost = None)

\* C17: the first step after reset sets firstNode to its action and no later
\* step changes it, while every step sets currentNode to its action: once
\* stepIndex >= 1, firstNode is the episode's first action and currentNode its
\* most recent one, for every instance.
C17_FirstAndCurrentNode ==
    pc \in {"stepped", "scored"} =>
        \A b \in DOMAIN i :
            /\ i[b] >= 1
            /\ first_node[b] = actions[b][1]
            /\ current_node[b] = actions[b][Len(actions[b])]

C17_Witness ==
    /\ pc = "stepped"
    /\ BatchSizeOf(i) = 2
    /\ i[0] = 3
    /\ first_node[0] = 2 /\ current_node[0] = 1
    /\ first_node[1] = 1 /\ current_node[1] = 0
    /\ actions[0][2] = 0

\* C18: reset stores a supplied matrix as given, with no closure applied, and
\* every later call returns a state whose matrix is the one it was called on.
C18_MatrixImmutable ==
    [][/\ pc' \in {"stepped", "scored"} => observation' = observation
       /\ pc' = "reset" =>
             LET B == BatchSizeOf(i')
             IN  \/ observation' = SuppliedBatch(B, num_loc)
                 \/ \E s \in 0 .. MaxSeed :
                       observation' = generate_data(SeededRand(s, B, num_loc),
                                                    min_dist, max_dist, num_loc)]_vars

C18_Witness ==
    /\ pc = "stepped"
    /\ observation[0] = ScenarioA
    /\ ~Metric(observation[0], 3)
    /\ i[0] = 3
    /\ done[0]

\* C19: in every state reached from reset by batched steps all instances hold
\* the same stepIndex, so the first-step test on one instance's counter answers
\* as a test on each instance's own counter would.
C19_LockStep ==
    InEpisode =>
        \A b \in DOMAIN i :
            /\ i[b] = batch_to_scalar(i)
            /\ (batch_to_scalar(i) = 0) = (i[b] = 0)

C19_Witness ==
    /\ pc = "stepped"
    /\ BatchSizeOf(i) = 2
    /\ i[0] = 2 /\ i[1] = 2
    /\ legal[0] /\ ~legal[1]
    /\ done[0] /\ ~done[1]

\* C20: once a step has returned done = true for an instance, every further
\* step, on any action of [0, N), returns done = true for it again with its
\* visitedMask still all false, and adds one to its stepIndex.
C20_TerminalAbsorbing ==
    [][(pc \in {"stepped", "scored"} /\ pc' = "stepped") =>
          \A b \in DOMAIN i :
              done[b] =>
                  /\ done'[b]
                  /\ \A n \in Nodes(num_loc) : ~action_mask'[b][n]
                  /\ i'[b] = i[b] + 1]_vars

C20_Witness ==
    /\ pc = "stepped"
    /\ num_loc >= 3
    /\ BatchSizeOf(i) = 2
    /\ i[0] = num_loc + 1
    /\ \A b \in DOMAIN i : done[b] /\ Visited(b) = Nodes(num_loc)
    /\ current_node[0] # current_node[1]

====
